---- MODULE Spec2Model ----
(***************************************************************************)
(* LibreRelayBot: IRC to Nostr bridge.                                     *)
(*                                                                         *)
(*   Security.sanitizeMessage / createRateLimiter, NostrClient and         *)
(*   LibreRelayBotBridge               (libre-relay-bot.js)                *)
(*   IRCClient                         (lib/irc-client.js)                 *)
(*                                                                         *)
(* Strings are sequences of UTF-16 code units.  Time is Date.now() in      *)
(* milliseconds and never runs backwards.                                  *)
(***************************************************************************)
EXTENDS Integers, Sequences, FiniteSets, TLC

\* ------------------------------------------------------------------------
\* Bounds of the model
\* ------------------------------------------------------------------------
\* longest tail appended to a padding of 'a's in the sanitizer's inputs
MaxTail == 3

\* chat lines fed to the bridge in one run of the filter pipeline
MaxMsgs == 7

\* chat lines fed to the bridge in one run of the fan-out publisher
MaxPosts == 2

\* publishes that may be in flight at once
MaxInFlight == 2

\* timers of one kind (reconnect delay, reset delay, fault recovery delay)
\* that may be pending at once
MaxTimers == 2


\* ------------------------------------------------------------------------
\* Program constants
\* ------------------------------------------------------------------------
\* .substring(0, 280)
MaxMessageLength == 280

\* Security.createRateLimiter(5, 60000)
MaxRequests == 5

WindowMs == 60000

\* Config.parseRelays: the five default relays
DefaultRelays == 5

\* IRCClient: this.maxReconnectAttempts = 10
MaxReconnectAttempts == 10

\* ------------------------------------------------------------------------
\* State
\* ------------------------------------------------------------------------
\* sanitizer harness: the input, sanitizeMessage(input),
\* sanitizeMessage(sanitizeMessage(input)) and the position of the harness
VARIABLES sInput, sOnce, sTwice, sPc

sanVars == <<sInput, sOnce, sTwice, sPc>>

\* bridge: Config (targetBot, channel, testMode, number of relays), whether
\* nostrClient is set, Date.now(), the rate limiter's Map, stats, and the
\* publishes in flight (oldest first)
VARIABLES config, nostrClient, now, requests, stats, tasks

\* history: chat lines still to come, the decision taken on the latest
\* chat line, the latest admitted timestamps, the number of publishMessage
\* calls, and the latest publish that resolved
VARIABLES msgsLeft, last, admittedLog, pubCalls, lastOutcome

bridgeVars ==
    <<config, nostrClient, now, requests, stats, tasks,
      msgsLeft, last, admittedLog, pubCalls, lastOutcome>>

\* IRCClient and its timers, as one record:
\*   client            "null", or the state of the transport of the current
\*                     irc.Client: "connecting", "registered", "closing"
\*                     (it emitted 'disconnect'), "closed" (it emitted 'close')
\*   isConnected, reconnectAttempts, reconnecting       the fields
\*   keepAliveInterval whether the field holds a timer handle
\*   intervals         keep-alive setInterval timers not yet cleared
\*   reconnectTimers   attemptReconnect setTimeout timers not yet fired
\*   messageHandlers   the bridge's 'message' listeners on the current client
\*   listeners         whether the current client carries the listeners of
\*                     setupEventHandlers
\*   sessions          irc.Client objects created and not yet disconnected
\*   dropped           whether the transport of some client that was
\*                     disconnected and dropped has yet to finish closing
\*   droppedListeners  whether such a client still carries listeners
\*   staleEvents       history: a dropped client's transport has closed
\*   maxReached        history: 'Max IRC reconnection attempts reached' was logged
\*   outbound          history: the kinds of command written to the server so
\*                     far: "NICK" (registration, by the library on
\*                     connecting), "JOIN" (the configured channels, by the
\*                     library once registered), "PING", "PONG", "PRIVMSG"
\*   lastEvent         history: what happened last to the connection,
\*                     "none", "registered", "error", "close", "disconnect"
\*                     (the events), "probe" (a keep-alive PING could not be
\*                     sent) or "teardown" (disconnect() was called)
\*   timerSaw          history: what the reconnect timer that fired last found,
\*                     "none" (none fired), "connected" or "disconnected"
VARIABLE irc

\* the bridge around it: whether this.ircClient is set, resetAndReconnect
\* timers (2 s) and uncaughtException recovery timers (5 s) not yet fired,
\* whether _gracefulShutdown has run, whether the process has exited
VARIABLES ircClient, resetTimers, faultTimers, shutdown, exited

connVars == <<irc, ircClient, resetTimers, faultTimers, shutdown, exited>>

vars == <<sanVars, bridgeVars, connVars>>

\* ------------------------------------------------------------------------
\* Security.sanitizeMessage
\* ------------------------------------------------------------------------
\* /[\x00-\x1F\x7F]/
IsControl(c) == c \in 0..31 \/ c = 127

IsNotControl(c) == ~IsControl(c)

\* what String.prototype.trim removes: WhiteSpace and LineTerminator
IsWhiteSpace(c) ==
    \/ c \in {9, 10, 11, 12, 13, 32, 160, 5760, 8232, 8233, 8239, 8287, 12288, 65279}
    \/ c \in 8192..8202

\* .replace(/[\x00-\x1F\x7F]/g, '')
StripControl(s) == SelectSeq(s, IsNotControl)

\* .trim(): the first and the last code unit that is not white space
RECURSIVE FirstKept(_, _)
FirstKept(s, i) ==
    IF i > Len(s) \/ ~IsWhiteSpace(s[i]) THEN i ELSE FirstKept(s, i + 1)

RECURSIVE LastKept(_, _)
LastKept(s, i) ==
    IF i < 1 \/ ~IsWhiteSpace(s[i]) THEN i ELSE LastKept(s, i - 1)

Trim(s) == SubSeq(s, FirstKept(s, 1), LastKept(s, Len(s)))

\* .substring(0, n)
Truncate(s, n) == IF Len(s) <= n THEN s ELSE SubSeq(s, 1, n)

\* variant: no .substring(0, 280)
SanitizeMessage_NoTruncate(message) == Trim(StripControl(message))

SanitizeMessage(message) ==
    Truncate(Trim(StripControl(message)), MaxMessageLength)

\* ------------------------------------------------------------------------
\* Config defaults and the bridge before its first chat line
\* ------------------------------------------------------------------------
\* process.env.TARGET_BOT || 'LibreRelayBot'
DefaultTargetBot == "LibreRelayBot"

\* process.env.IRC_CHANNEL || '#SirLibre'
DefaultChannel == "#SirLibre"

\* process.env.IRC_NICKNAME || 'LibreRelayBot_Reader'
DefaultNickname == "LibreRelayBot_Reader"

DefaultConfig(testMode, nRelays) ==
    [targetBot |-> DefaultTargetBot, channel |-> DefaultChannel,
     testMode |-> testMode, relays |-> nRelays]

InitStats ==
    [messagesMonitored |-> 0, successfulPosts |-> 0, failedPosts |-> 0]

NoMessage == [from |-> "", to |-> "", text |-> <<>>]

NoDecision ==
    [msg |-> NoMessage, limiter |-> "none", trailing |-> 0, called |-> FALSE]

NoResult == [success |-> FALSE, published |-> 0, failed |-> 0]

NoOutcome ==
    [seq |-> 0, attempted |-> 0, failures |-> 0, raised |-> FALSE, stillOpen |-> 0,
     opened |-> 0, closed |-> 0, netCalls |-> 0, result |-> NoResult]

BridgeInit(cfg, budget) ==
    /\ config = cfg
    /\ nostrClient = TRUE
    /\ now = 0
    /\ requests = <<>>
    /\ stats = InitStats
    /\ tasks = <<>>
    /\ msgsLeft = budget
    /\ last = NoDecision
    /\ admittedLog = <<>>
    /\ pubCalls = 0
    /\ lastOutcome = NoOutcome

BridgeIdle == BridgeInit(DefaultConfig(FALSE, 0), 0)

\* IRCClient.constructor
NewIRCClient ==
    [client |-> "null", isConnected |-> FALSE, reconnectAttempts |-> 0,
     reconnecting |-> FALSE, keepAliveInterval |-> FALSE, intervals |-> 0,
     reconnectTimers |-> 0, messageHandlers |-> 0, listeners |-> FALSE,
     sessions |-> 0, dropped |-> FALSE, droppedListeners |-> FALSE,
     staleEvents |-> FALSE, maxReached |-> FALSE,
     outbound |-> {}, lastEvent |-> "none", timerSaw |-> "none"]

ConnIdle ==
    /\ irc = NewIRCClient
    /\ ircClient = FALSE
    /\ resetTimers = 0
    /\ faultTimers = 0
    /\ shutdown = FALSE
    /\ exited = FALSE

SanIdle ==
    /\ sInput = <<>>
    /\ sOnce = <<>>
    /\ sTwice = <<>>
    /\ sPc = "idle"

\* ------------------------------------------------------------------------
\* Inputs of the sanitizer harness: a run of 'a's followed by a short tail
\* over a letter, a space, a tab, DEL and a no-break space
\* ------------------------------------------------------------------------
Pad(n) == [i \in 1..n |-> 97]

TailChars == {98, 32, 9, 127, 160}

Tails == UNION {[1..n -> TailChars] : n \in 0..MaxTail}

PadLengths ==
    {0, 1, MaxMessageLength - 2, MaxMessageLength - 1, MaxMessageLength}

SanitizeInputs == {Pad(n) \o t : n \in PadLengths, t \in Tails}

SanInit ==
    /\ sInput \in SanitizeInputs
    /\ BridgeIdle
    /\ ConnIdle
    /\ sOnce = <<>>
    /\ sTwice = <<>>
    /\ sPc = "input"

SanitizeOnce ==
    /\ sPc = "input"
    /\ sOnce' = SanitizeMessage(sInput)
    /\ sPc' = "once"
    /\ UNCHANGED <<sInput, sTwice, bridgeVars, connVars>>

SanitizeTwice ==
    /\ sPc = "once"
    /\ sTwice' = SanitizeMessage(sOnce)
    /\ sPc' = "twice"
    /\ UNCHANGED <<sInput, sOnce, bridgeVars, connVars>>

SanNext == SanitizeOnce \/ SanitizeTwice

SanitizeSpec == SanInit /\ [][SanNext]_vars

\* ------------------------------------------------------------------------
\* Security.createRateLimiter
\* ------------------------------------------------------------------------
\* variant: a request exactly windowMs old is dropped too
RECURSIVE RemoveOld_Inclusive(_, _)
RemoveOld_Inclusive(userRequests, windowStart) ==
    IF userRequests # <<>> /\ Head(userRequests) <= windowStart
    THEN RemoveOld_Inclusive(Tail(userRequests), windowStart)
    ELSE userRequests

\* while (userRequests.length && userRequests[0] < windowStart) shift()
RECURSIVE RemoveOld(_, _)
RemoveOld(userRequests, windowStart) ==
    IF userRequests # <<>> /\ Head(userRequests) < windowStart
    THEN RemoveOld(Tail(userRequests), windowStart)
    ELSE userRequests

\* variant: an admitted request is not recorded
RateLimiter_NoRecord(reqs, key, t) ==
    LET withKey == IF key \in DOMAIN reqs THEN reqs ELSE reqs @@ (key :> <<>>)
        kept    == RemoveOld(withKey[key], t - WindowMs)
    IN  [ok |-> Len(kept) < MaxRequests,
         requests |-> [withKey EXCEPT ![key] = kept]]

\* variant: a rejected request is recorded too
RateLimiter_RecordsRejected(reqs, key, t) ==
    LET withKey == IF key \in DOMAIN reqs THEN reqs ELSE reqs @@ (key :> <<>>)
        kept    == RemoveOld(withKey[key], t - WindowMs)
    IN  [ok |-> Len(kept) < MaxRequests,
         requests |-> [withKey EXCEPT ![key] = Append(kept, t)]]

\* the closure returned by createRateLimiter, called with key at time t on
\* the Map reqs: whether the request is admitted, and the Map afterwards
RateLimiter(reqs, key, t) ==
    LET withKey == IF key \in DOMAIN reqs THEN reqs ELSE reqs @@ (key :> <<>>)
        kept    == RemoveOld(withKey[key], t - WindowMs)
        ok      == Len(kept) < MaxRequests
    IN  [ok |-> ok,
         requests |-> [withKey EXCEPT ![key] = IF ok THEN Append(kept, t) ELSE kept]]

\* ------------------------------------------------------------------------
\* NostrClient
\* ------------------------------------------------------------------------
Relays == 1..config.relays

\* finalizeEvent({kind: 1, content, tags: [...], created_at})
FinalizeEvent(content, t) ==
    [kind |-> 1, content |-> content,
     tags |-> <<(<<"t", "sirlibre">>), (<<"t", "librerelaybot">>)>>,
     created_at |-> t \div 1000]

\* variant: every settled promise is counted as published
PublishToRelaysResult_CountsSettled(relay) ==
    LET successful == Cardinality(DOMAIN relay)
        failed     == Cardinality({r \in DOMAIN relay : relay[r].status = "rejected"})
    IN  [success |-> successful > 0, published |-> successful, failed |-> failed]

\* _publishToRelays, after Promise.allSettled: relay maps each relay to how
\* its _publishToRelay promise settled
PublishToRelaysResult(relay) ==
    LET successful == Cardinality({r \in DOMAIN relay : relay[r].status = "fulfilled"})
        failed     == Cardinality({r \in DOMAIN relay : relay[r].status = "rejected"})
    IN  [success |-> successful > 0, published |-> successful, failed |-> failed]

\* variant: the test-mode flag is not consulted
TestMode_Ignored == FALSE

\* if (this.testMode)
TestMode == config.testMode

\* publishMessage in test mode
TestModeResult == [success |-> TRUE, published |-> 0, failed |-> 0]

\* this.relays.map(url => this._publishToRelay(url, event)): every relay
\* starts with Relay.connect(url) pending
StartRelays ==
    [r \in Relays |->
        [status |-> "connecting", open |-> FALSE, closes |-> 0, calls |-> 1,
         error |-> ""]]

\* variant: resolved by the first fulfilled promise
Settled_FirstFulfilled(task) ==
    \E r \in DOMAIN task.relay : task.relay[r].status = "fulfilled"

\* Promise.allSettled: every promise fulfilled or rejected
Settled(task) ==
    \A r \in DOMAIN task.relay : task.relay[r].status \in {"fulfilled", "rejected"}

\* ------------------------------------------------------------------------
\* LibreRelayBotBridge._postToNostr, after publishMessage has resolved with
\* result or thrown
\* ------------------------------------------------------------------------
\* variant: a publish that did not throw is counted as successful
RecordResult_IgnoresSuccess(st, raised, result) ==
    IF ~raised
    THEN [st EXCEPT !.successfulPosts = @ + 1]
    ELSE [st EXCEPT !.failedPosts = @ + 1]

\* variant: a publish that throws is counted as posted and as failed
RecordResult_CountsBoth(st, raised, result) ==
    IF ~raised /\ result.success
    THEN [st EXCEPT !.successfulPosts = @ + 1]
    ELSE IF raised
    THEN [st EXCEPT !.successfulPosts = @ + 1, !.failedPosts = @ + 1]
    ELSE [st EXCEPT !.failedPosts = @ + 1]

RecordResult(st, raised, result) ==
    IF ~raised /\ result.success
    THEN [st EXCEPT !.successfulPosts = @ + 1]
    ELSE [st EXCEPT !.failedPosts = @ + 1]

Sum(f) ==
    LET RECURSIVE S(_)
        S(D) == IF D = {} THEN 0
                ELSE LET x == CHOOSE y \in D : TRUE IN f[x] + S(D \ {x})
    IN  S(DOMAIN f)

\* history: the publishMessage call (counted from 1) whose outcome
\* _postToNostr recorded last, and what happened during it
OutcomeOf(seq, relay, raised, result) ==
    [seq |-> seq,
     attempted |-> Cardinality(DOMAIN relay),
     failures |-> Cardinality({r \in DOMAIN relay : relay[r].error # ""}),
     raised |-> raised,
     stillOpen |-> Cardinality({r \in DOMAIN relay : relay[r].open}),
     opened |-> Cardinality({r \in DOMAIN relay : relay[r].calls > 1}),
     closed |-> Sum([r \in DOMAIN relay |-> relay[r].closes]),
     netCalls |-> Sum([r \in DOMAIN relay |-> relay[r].calls]),
     result |-> result]

\* _postToNostr(message) called at time t with stats st; throws: whether
\* finalizeEvent throws.  Runs up to the first
\* suspension on the network: a test-mode publish, a publish to no relay and
\* a throwing publish resolve before any other event is handled.
PostToNostr(m, t, st, throws) ==
    LET sanitizedMessage == SanitizeMessage(m.text)
        event == FinalizeEvent(sanitizedMessage, t)
    IN
    IF sanitizedMessage = <<>>
    THEN /\ stats' = st
         /\ UNCHANGED <<tasks, pubCalls, lastOutcome>>
    ELSE /\ pubCalls' = pubCalls + 1
         /\ IF throws
            THEN /\ stats' = RecordResult(st, TRUE, NoResult)
                 /\ lastOutcome' = OutcomeOf(pubCalls + 1, <<>>, TRUE, NoResult)
                 /\ UNCHANGED tasks
            ELSE IF TestMode
            THEN /\ stats' = RecordResult(st, FALSE, TestModeResult)
                 /\ lastOutcome' = OutcomeOf(pubCalls + 1, <<>>, FALSE, TestModeResult)
                 /\ UNCHANGED tasks
            ELSE IF Relays = {}
            THEN /\ stats' = RecordResult(st, FALSE, PublishToRelaysResult(StartRelays))
                 /\ lastOutcome' =
                        OutcomeOf(pubCalls + 1, StartRelays, FALSE,
                                  PublishToRelaysResult(StartRelays))
                 /\ UNCHANGED tasks
            ELSE /\ tasks' = Append(tasks, [seq |-> pubCalls + 1, src |-> m,
                                         event |-> event, relay |-> StartRelays])
                 /\ stats' = st
                 /\ UNCHANGED lastOutcome

\* ------------------------------------------------------------------------
\* LibreRelayBotBridge._handleIRCMessage(from, to, message), d ms after the
\* previous chat line
\* ------------------------------------------------------------------------
\* toLowerCase() on the names of Senders
Lower(name) == IF name = "LibreRelayBot" THEN "librerelaybot" ELSE name

\* variant: the sender is compared ignoring case
NotTargetBot_IgnoreCase(from) == Lower(from) # Lower(config.targetBot)

\* if (from !== this.config.app.targetBot)
NotTargetBot(from) == from # config.targetBot

\* history: how many of the latest admitted chat lines fall within the
\* trailing window [t - WindowMs, t]
TrailingAdmitted(t) ==
    Cardinality({i \in 1..Len(admittedLog) : admittedLog[i] >= t - WindowMs})

\* history: the latest MaxRequests + 1 admitted timestamps
LogAdmitted(t) ==
    IF Len(admittedLog) < MaxRequests + 1
    THEN Append(admittedLog, t)
    ELSE Append(Tail(admittedLog), t)

HandleIRCMessage(m, d, throws) ==
    LET t  == now + d
        rl == RateLimiter(requests, m.from, t)
        monitored == [stats EXCEPT !.messagesMonitored = @ + 1]
    IN
    /\ msgsLeft > 0
    /\ Len(tasks) < MaxInFlight
    /\ msgsLeft' = msgsLeft - 1
    /\ now' = t
    /\ IF NotTargetBot(m.from)
       THEN /\ UNCHANGED <<requests, stats, tasks, pubCalls, lastOutcome, admittedLog>>
            /\ last' = [msg |-> m, limiter |-> "none",
                        trailing |-> TrailingAdmitted(t), called |-> FALSE]
       ELSE /\ requests' = rl.requests
            /\ IF ~rl.ok
               THEN /\ stats' = monitored
                    /\ UNCHANGED <<tasks, pubCalls, lastOutcome, admittedLog>>
               ELSE /\ admittedLog' = LogAdmitted(t)
                    /\ IF nostrClient
                       THEN PostToNostr(m, t, monitored, throws)
                       ELSE /\ stats' = monitored
                            /\ UNCHANGED <<tasks, pubCalls, lastOutcome>>
            /\ last' = [msg |-> m,
                        limiter |-> IF rl.ok THEN "admitted" ELSE "rejected",
                        trailing |-> TrailingAdmitted(t),
                        called |-> pubCalls' # pubCalls]
    /\ UNCHANGED <<config, nostrClient, sanVars, connVars>>

\* ------------------------------------------------------------------------
\* NostrClient._publishToRelay(url, event) for relay r of the i-th publish in
\* flight, one step per settled await; the step that settles the last relay
\* also resolves Promise.allSettled, returns from _publishToRelays and
\* resumes _postToNostr
\* ------------------------------------------------------------------------
RemoveAt(q, i) == SubSeq(q, 1, i - 1) \o SubSeq(q, i + 1, Len(q))

Advance(i, r, rec) ==
    LET task  == tasks[i]
        relay == [task.relay EXCEPT ![r] = rec]
        after == [task EXCEPT !.relay = relay]
    IN  IF Settled(after)
        THEN /\ tasks' = RemoveAt(tasks, i)
             /\ stats' = RecordResult(stats, FALSE, PublishToRelaysResult(relay))
             /\ lastOutcome' =
                    OutcomeOf(task.seq, relay, FALSE, PublishToRelaysResult(relay))
        ELSE /\ tasks' = [tasks EXCEPT ![i] = after]
             /\ UNCHANGED <<stats, lastOutcome>>

Unchanged_RelayStep ==
    UNCHANGED <<config, nostrClient, now, requests, msgsLeft, last,
                admittedLog, pubCalls, sanVars, connVars>>

\* finally { relay.close() } of a relay whose publish has settled as rec
CloseRelay_OnSuccessOnly(rec) ==
    IF rec.status = "fulfilled"
    THEN [rec EXCEPT !.open = FALSE, !.closes = @ + 1]
    ELSE rec

CloseRelay(rec) == [rec EXCEPT !.open = FALSE, !.closes = @ + 1]

\* await Relay.connect(url) resolves; relay.publish(event) is called
ConnectResolves(i, r) ==
    /\ i \in 1..Len(tasks)
    /\ r \in DOMAIN tasks[i].relay
    /\ tasks[i].relay[r].status = "connecting"
    /\ Advance(i, r, [tasks[i].relay[r] EXCEPT
                        !.status = "publishing", !.open = TRUE, !.calls = @ + 1])
    /\ Unchanged_RelayStep

\* await Relay.connect(url) rejects: no relay, nothing to close
ConnectRejects(i, r) ==
    /\ i \in 1..Len(tasks)
    /\ r \in DOMAIN tasks[i].relay
    /\ tasks[i].relay[r].status = "connecting"
    /\ Advance(i, r, [tasks[i].relay[r] EXCEPT
                        !.status = "rejected", !.error = "connect"])
    /\ Unchanged_RelayStep

\* await relay.publish(event) resolves; finally relay.close(); return url
PublishResolves(i, r) ==
    /\ i \in 1..Len(tasks)
    /\ r \in DOMAIN tasks[i].relay
    /\ tasks[i].relay[r].status = "publishing"
    /\ Advance(i, r, CloseRelay([tasks[i].relay[r] EXCEPT !.status = "fulfilled"]))
    /\ Unchanged_RelayStep

\* await relay.publish(event) rejects; finally relay.close(); rethrown
PublishRejects(i, r) ==
    /\ i \in 1..Len(tasks)
    /\ r \in DOMAIN tasks[i].relay
    /\ tasks[i].relay[r].status = "publishing"
    /\ Advance(i, r, CloseRelay([tasks[i].relay[r] EXCEPT
                                    !.status = "rejected", !.error = "publish"]))
    /\ Unchanged_RelayStep

RelayNext ==
    \E i \in 1..MaxInFlight, r \in 1..DefaultRelays :
        \/ ConnectResolves(i, r)
        \/ ConnectRejects(i, r)
        \/ PublishResolves(i, r)
        \/ PublishRejects(i, r)

\* ------------------------------------------------------------------------
\* Chat lines: who sent it, where to (the channel, or the bot's own nick for
\* a private message), and the text
\* ------------------------------------------------------------------------
Senders == {DefaultTargetBot, "librerelaybot", "OtherBot"}

Targets == {DefaultChannel, DefaultNickname}

\* "hi", BEL SP TAB (nothing left after sanitizing), and BEL 279 'a's SP 'b'
Texts == {<<104, 105>>, <<7, 32, 9>>,
          <<7>> \o Pad(MaxMessageLength - 1) \o <<32, 98>>}

Messages == [from : Senders, to : Targets, text : Texts]

\* milliseconds between two chat lines
Delays == {0, 60000, 61000}

\* ------------------------------------------------------------------------
\* The filter pipeline: a burst of chat lines of every kind, one relay
\* ------------------------------------------------------------------------
PipelineInit ==
    /\ SanIdle
    /\ ConnIdle
    /\ \E testMode \in BOOLEAN : BridgeInit(DefaultConfig(testMode, 1), MaxMsgs)

PipelineNext ==
    \/ /\ tasks = <<>>
       /\ \E m \in Messages, throws \in BOOLEAN : HandleIRCMessage(m, 0, throws)
    \/ RelayNext

PipelineSpec == PipelineInit /\ [][PipelineNext]_vars

\* ------------------------------------------------------------------------
\* The rate limiter: short chat lines on the channel, from the target bot
\* or from OtherBot, at any of the delays, in test mode
\* ------------------------------------------------------------------------
LimiterMessages ==
    {m \in Messages : /\ m.from \in {DefaultTargetBot, "OtherBot"}
                      /\ m.to = DefaultChannel
                      /\ Len(m.text) <= MaxMessageLength}

LimiterInit ==
    /\ SanIdle
    /\ ConnIdle
    /\ BridgeInit(DefaultConfig(TRUE, 1), MaxMsgs)

LimiterNext ==
    \E m \in LimiterMessages, d \in Delays : HandleIRCMessage(m, d, FALSE)

LimiterSpec == LimiterInit /\ [][LimiterNext]_vars

\* ------------------------------------------------------------------------
\* The fan-out publisher: a few chat lines on the channel, each arriving
\* when no publish is in flight; the default relays or the first few of them
\* ------------------------------------------------------------------------
PublishInit ==
    /\ SanIdle
    /\ ConnIdle
    /\ \E testMode \in BOOLEAN, n \in 0..DefaultRelays :
           BridgeInit(DefaultConfig(testMode, n), MaxPosts)

PublishNext ==
    \/ /\ tasks = <<>>
       /\ \E m \in LimiterMessages, throws \in BOOLEAN : HandleIRCMessage(m, 0, throws)
    \/ RelayNext

PublishSpec == PublishInit /\ [][PublishNext]_vars

\* ------------------------------------------------------------------------
\* Overlapping publishes: the 'message' listener does not await
\* _handleIRCMessage, so a chat line is handled while earlier publishes are
\* still in flight; lines of the target bot on the channel, one or two
\* relays; IRC_CHANNEL and TARGET_BOT left at their defaults or set
\* ------------------------------------------------------------------------
OrderMessages == {m \in LimiterMessages : m.from = DefaultTargetBot}

\* Config.constructor: process.env.IRC_CHANNEL || '#SirLibre',
\* process.env.TARGET_BOT || 'LibreRelayBot'
ConfiguredChannels == {DefaultChannel, "#Other"}

ConfiguredTargetBots == {DefaultTargetBot, "OtherBot"}

OrderInit ==
    /\ SanIdle
    /\ ConnIdle
    /\ \E n \in 1..2, ch \in ConfiguredChannels, bot \in ConfiguredTargetBots :
           BridgeInit([DefaultConfig(FALSE, n) EXCEPT !.channel = ch,
                                                      !.targetBot = bot],
                      MaxPosts)

OrderNext ==
    \/ \E m \in OrderMessages :
          HandleIRCMessage([m EXCEPT !.from = config.targetBot,
                                     !.to = config.channel], 0, FALSE)
    \/ RelayNext

OrderSpec == OrderInit /\ [][OrderNext]_vars

\* ------------------------------------------------------------------------
\* IRCClient: each method maps the record before the call to the record
\* after it
\* ------------------------------------------------------------------------
\* variant: the interval is left running
StopKeepAlive_Skipped(c) == c

\* stopKeepAlive()
StopKeepAlive(c) ==
    IF c.keepAliveInterval
    THEN [c EXCEPT !.keepAliveInterval = FALSE, !.intervals = @ - 1]
    ELSE c

\* startKeepAlive(): the handle is overwritten, not cleared
StartKeepAlive(c) ==
    [c EXCEPT !.keepAliveInterval = TRUE, !.intervals = @ + 1]

\* this.client.removeAllListeners()
RemoveAllListeners_Skipped(c) == c

RemoveAllListeners(c) == [c EXCEPT !.listeners = FALSE, !.messageHandlers = 0]

\* variant: disconnect() without stopKeepAlive()
Disconnect_KeepsInterval(c) ==
    LET stopped == [c EXCEPT !.reconnecting = FALSE]
        deaf    == RemoveAllListeners(stopped)
        dropped == IF stopped.client # "null"
                   THEN [deaf EXCEPT !.client = "null",
                                     !.sessions = @ - 1,
                                     !.dropped = @ \/ stopped.client # "closed",
                                     !.droppedListeners =
                                         @ \/ (deaf.listeners /\ stopped.client # "closed"),
                                     !.listeners = FALSE,
                                     !.messageHandlers = 0]
                   ELSE stopped
    IN  [dropped EXCEPT !.isConnected = FALSE, !.lastEvent = "teardown"]

\* disconnect(): the client, if any, loses its listeners, is told to
\* disconnect and is dropped; its transport closes later unless it had closed
Disconnect(c) ==
    LET stopped == [StopKeepAlive(c) EXCEPT !.reconnecting = FALSE]
        deaf    == RemoveAllListeners(stopped)
        dropped == IF stopped.client # "null"
                   THEN [deaf EXCEPT !.client = "null",
                                     !.sessions = @ - 1,
                                     !.dropped = @ \/ stopped.client # "closed",
                                     !.droppedListeners =
                                         @ \/ (deaf.listeners /\ stopped.client # "closed"),
                                     !.listeners = FALSE,
                                     !.messageHandlers = 0]
                   ELSE stopped
    IN  [dropped EXCEPT !.isConnected = FALSE, !.lastEvent = "teardown"]

\* variant: the original connect(), without the bridge's 'message' listener
Connect_Original(c) ==
    [Disconnect(c) EXCEPT !.client = "connecting", !.listeners = TRUE,
                          !.sessions = @ + 1, !.outbound = @ \cup {"NICK"}]

\* connect(), as replaced in _initializeIRCClient: the original connect(),
\* then the bridge's 'message' listener on the new client
Connect(c) ==
    [Disconnect(c) EXCEPT !.client = "connecting", !.messageHandlers = 1,
                          !.listeners = TRUE, !.sessions = @ + 1,
                          !.outbound = @ \cup {"NICK"}]

\* variant: a skipped call counts as an attempt
AttemptReconnect_CountsSkipped(c) ==
    IF c.reconnecting
    THEN [c EXCEPT !.reconnectAttempts = @ + 1]
    ELSE IF c.reconnectAttempts < MaxReconnectAttempts
    THEN [c EXCEPT !.reconnecting = TRUE,
                   !.reconnectAttempts = @ + 1,
                   !.reconnectTimers = @ + 1]
    ELSE [StopKeepAlive(c) EXCEPT !.maxReached = TRUE]

\* attemptReconnect()
AttemptReconnect(c) ==
    IF c.reconnecting
    THEN c
    ELSE IF c.reconnectAttempts < MaxReconnectAttempts
    THEN [c EXCEPT !.reconnecting = TRUE,
                   !.reconnectAttempts = @ + 1,
                   !.reconnectTimers = @ + 1]
    ELSE [StopKeepAlive(c) EXCEPT !.maxReached = TRUE]

\* resetAndReconnect(), up to its setTimeout
ResetAndReconnect(c) ==
    Disconnect([c EXCEPT !.reconnectAttempts = 0, !.reconnecting = FALSE])

\* ------------------------------------------------------------------------
\* Events.  The irc library is created with retryCount 0: a client emits
\* 'registered' at most once, and nothing after 'close'.  Listeners are
\* removed from a client before it is dropped, so only the current client
\* is heard.
\* ------------------------------------------------------------------------
Running == ~exited

Unchanged_Bridge == UNCHANGED <<sanVars, config, now, requests, stats, tasks,
                                msgsLeft, last, admittedLog, pubCalls, lastOutcome>>

\* LibreRelayBotBridge.start(): _initializeNostrClient, _initializeIRCClient
Start ==
    /\ Running /\ ~ircClient /\ ~shutdown
    /\ nostrClient' = TRUE
    /\ ircClient' = TRUE
    /\ irc' = Connect(NewIRCClient)
    /\ UNCHANGED <<resetTimers, faultTimers, shutdown, exited>>
    /\ Unchanged_Bridge

\* variant: reconnectAttempts is not reset
RegisteredHandler_KeepsCounter(c) ==
    StartKeepAlive([c EXCEPT !.lastEvent = "registered", !.isConnected = TRUE])

\* the listener of 'registered'
RegisteredHandler(c) ==
    StartKeepAlive([c EXCEPT !.lastEvent = "registered",
                             !.isConnected = TRUE,
                             !.reconnectAttempts = 0])

\* client.on('registered')
OnRegistered ==
    /\ Running /\ irc.client = "connecting"
    /\ irc' = RegisteredHandler([irc EXCEPT !.client = "registered",
                                            !.outbound = @ \cup {"JOIN"}])
    /\ UNCHANGED <<ircClient, resetTimers, faultTimers, shutdown, exited, nostrClient>>
    /\ Unchanged_Bridge

\* client.on('error')
OnError ==
    /\ Running /\ irc.client \in {"connecting", "registered"}
    /\ irc' = [irc EXCEPT !.isConnected = FALSE, !.lastEvent = "error"]
    /\ UNCHANGED <<ircClient, resetTimers, faultTimers, shutdown, exited, nostrClient>>
    /\ Unchanged_Bridge

\* variant: 'close' only marks the connection as lost
CloseHandler_MarkOnly(c) ==
    [c EXCEPT !.lastEvent = "close", !.isConnected = FALSE]

\* the listener of 'close'
CloseHandler(c) ==
    AttemptReconnect(StopKeepAlive([c EXCEPT !.lastEvent = "close",
                                             !.isConnected = FALSE]))

\* client.on('close')
OnClose ==
    /\ Running /\ irc.client \in {"connecting", "registered", "closing"}
    /\ irc' = CloseHandler([irc EXCEPT !.client = "closed"])
    /\ irc'.reconnectTimers <= MaxTimers
    /\ UNCHANGED <<ircClient, resetTimers, faultTimers, shutdown, exited, nostrClient>>
    /\ Unchanged_Bridge

\* the transport of a dropped client finishes closing: its 'close' is heard
\* only if it still carries listeners
OnDroppedClose ==
    /\ Running /\ irc.dropped
    /\ LET gone == [irc EXCEPT !.dropped = FALSE, !.droppedListeners = FALSE,
                               !.staleEvents = TRUE]
       IN  irc' = IF irc.droppedListeners THEN CloseHandler(gone) ELSE gone
    /\ irc'.reconnectTimers <= MaxTimers
    /\ UNCHANGED <<ircClient, resetTimers, faultTimers, shutdown, exited, nostrClient>>
    /\ Unchanged_Bridge

\* client.on('disconnect')
OnDisconnect ==
    /\ Running /\ irc.client \in {"connecting", "registered"}
    /\ irc' = StopKeepAlive([irc EXCEPT !.client = "closing",
                                        !.lastEvent = "disconnect",
                                        !.isConnected = FALSE])
    /\ UNCHANGED <<ircClient, resetTimers, faultTimers, shutdown, exited, nostrClient>>
    /\ Unchanged_Bridge

\* client.on('ping'): client.send('PONG', server)
OnPing ==
    /\ Running /\ irc.client \in {"connecting", "registered"}
    /\ irc' = [irc EXCEPT !.outbound = @ \cup {"PONG"}]
    /\ UNCHANGED <<ircClient, resetTimers, faultTimers, shutdown, exited, nostrClient>>
    /\ Unchanged_Bridge

\* client.on('message') of _initializeIRCClient, on a registered transport:
\* every attached listener calls _handleIRCMessage
OnMessage(m) ==
    /\ Running /\ irc.client = "registered" /\ irc.messageHandlers > 0
    /\ HandleIRCMessage(m, 0, FALSE)

\* postMessage(message): client.say on every configured channel; no caller
\* in the bridge
PostMessage(c) ==
    IF c.client = "null" \/ ~c.isConnected
    THEN c
    ELSE [c EXCEPT !.outbound = @ \cup {"PRIVMSG"}]

\* the command of the keep-alive probe: client.send('PING', 'keepalive')
KeepAliveProbe_Say == "PRIVMSG"

KeepAliveProbe == "PING"

\* the setInterval callback of startKeepAlive; sendThrows: whether
\* client.send('PING', 'keepalive') throws
KeepAliveTick(sendThrows) ==
    /\ Running /\ irc.intervals > 0
    /\ irc' = IF irc.isConnected /\ irc.client # "null"
              THEN IF sendThrows
                   THEN AttemptReconnect([irc EXCEPT !.isConnected = FALSE,
                                                     !.lastEvent = "probe"])
                   ELSE [irc EXCEPT !.outbound = @ \cup {KeepAliveProbe}]
              ELSE IF ~irc.isConnected
                      /\ irc.reconnectAttempts < MaxReconnectAttempts
              THEN AttemptReconnect(irc)
              ELSE irc
    /\ irc'.reconnectTimers <= MaxTimers
    /\ UNCHANGED <<ircClient, resetTimers, faultTimers, shutdown, exited, nostrClient>>
    /\ Unchanged_Bridge

\* the test of the setTimeout callback of attemptReconnect
StillDisconnected_Always(c) == TRUE

StillDisconnected(c) == ~c.isConnected

\* the setTimeout callback of attemptReconnect
ReconnectTimerFires ==
    /\ Running /\ irc.reconnectTimers > 0
    /\ LET fired == [irc EXCEPT !.reconnectTimers = @ - 1, !.reconnecting = FALSE,
                                !.timerSaw = IF irc.isConnected THEN "connected"
                                                                ELSE "disconnected"]
       IN  irc' = IF StillDisconnected(fired) THEN Connect(fired) ELSE fired
    /\ UNCHANGED <<ircClient, resetTimers, faultTimers, shutdown, exited, nostrClient>>
    /\ Unchanged_Bridge

\* process.on('uncaughtException') with a message that includes
\* 'Cannot read properties of null'
UncaughtNullReference ==
    /\ Running /\ faultTimers < MaxTimers
    /\ faultTimers' = faultTimers + 1
    /\ UNCHANGED <<irc, ircClient, resetTimers, shutdown, exited, nostrClient>>
    /\ Unchanged_Bridge

\* its setTimeout callback: if (this.ircClient) resetAndReconnect()
RecoveryTimerFires ==
    /\ Running /\ faultTimers > 0
    /\ faultTimers' = faultTimers - 1
    /\ IF ircClient
       THEN /\ resetTimers < MaxTimers
            /\ irc' = ResetAndReconnect(irc)
            /\ resetTimers' = resetTimers + 1
       ELSE UNCHANGED <<irc, resetTimers>>
    /\ UNCHANGED <<ircClient, shutdown, exited, nostrClient>>
    /\ Unchanged_Bridge

\* the setTimeout callback of resetAndReconnect
ResetTimerFires ==
    /\ Running /\ resetTimers > 0
    /\ resetTimers' = resetTimers - 1
    /\ irc' = Connect(irc)
    /\ UNCHANGED <<ircClient, faultTimers, shutdown, exited, nostrClient>>
    /\ Unchanged_Bridge

\* _gracefulShutdown (SIGINT, SIGTERM, any other uncaught exception):
\* ircClient.disconnect(), and process.exit a second later
GracefulShutdown ==
    /\ Running
    /\ shutdown' = TRUE
    /\ irc' = IF ircClient THEN Disconnect(irc) ELSE irc
    /\ UNCHANGED <<ircClient, resetTimers, faultTimers, exited, nostrClient>>
    /\ Unchanged_Bridge

\* its setTimeout callback: process.exit(exitCode)
ProcessExit ==
    /\ Running /\ shutdown
    /\ exited' = TRUE
    /\ UNCHANGED <<irc, ircClient, resetTimers, faultTimers, shutdown, nostrClient>>
    /\ Unchanged_Bridge

\* GET /health: healthy = this.ircClient?.isConnected && this.nostrClient
Healthy_ClientPresent == ircClient /\ irc.client # "null" /\ nostrClient

Healthy == ircClient /\ irc.isConnected /\ nostrClient

\* the bridge as constructed, before start(): no publisher yet; test mode,
\* one chat line to come
ConnInit ==
    /\ SanIdle
    /\ ConnIdle
    /\ config = DefaultConfig(TRUE, DefaultRelays)
    /\ nostrClient = FALSE
    /\ now = 0
    /\ requests = <<>>
    /\ stats = InitStats
    /\ tasks = <<>>
    /\ msgsLeft = 1
    /\ last = NoDecision
    /\ admittedLog = <<>>
    /\ pubCalls = 0
    /\ lastOutcome = NoOutcome

ConnNext ==
    \/ Start
    \/ OnRegistered
    \/ OnError
    \/ OnClose
    \/ OnDroppedClose
    \/ OnDisconnect
    \/ OnPing
    \/ \E m \in OrderMessages : OnMessage(m)
    \/ \E sendThrows \in BOOLEAN : KeepAliveTick(sendThrows)
    \/ ReconnectTimerFires
    \/ UncaughtNullReference
    \/ RecoveryTimerFires
    \/ ResetTimerFires
    \/ GracefulShutdown
    \/ ProcessExit

ConnSpec == ConnInit /\ [][ConnNext]_vars

\* ------------------------------------------------------------------------
\* Claims
\* ------------------------------------------------------------------------
Handled == last.msg # NoMessage

\* C1: a chat line is handed to publishMessage if and only if its sender is
\* the target sender, its channel is the target channel, the rate limiter
\* admits it and its sanitized text is not empty.
C1_ForwardedIffSenderChannelRateText ==
    Handled =>
        (last.called <=>
            /\ last.msg.from = config.targetBot
            /\ last.msg.to = config.channel
            /\ last.limiter = "admitted"
            /\ SanitizeMessage(last.msg.text) # <<>>)

\* C2: a chat line whose sender is not exactly the target sender never
\* reaches publishMessage, whatever its channel, text or the limiter's state.
C2_OtherSenderNeverPublished ==
    (Handled /\ last.msg.from # config.targetBot) =>
        /\ ~last.called
        /\ last.limiter = "none"

\* a differently-cased target name was handled on the channel, with room in
\* the rate limiter and a text that survives sanitizing, and was dropped
C2_Witness ==
    /\ last.msg.from = "librerelaybot"
    /\ last.msg.to = config.channel
    /\ SanitizeMessage(last.msg.text) # <<>>
    /\ last.trailing < MaxRequests
    /\ ~last.called
    /\ pubCalls > 0

\* C3: with max 5 and window 60 s a chat line of the target sender is
\* admitted if and only if fewer than 5 of its lines were admitted within
\* the trailing 60 s, and never 6 lines are admitted within a span of 60 s.
C3_RateLimiterWindow ==
    /\ last.limiter # "none" =>
           (last.limiter = "admitted" <=> last.trailing < MaxRequests)
    /\ Len(admittedLog) = MaxRequests + 1 =>
           admittedLog[MaxRequests + 1] - admittedLog[1] > WindowMs

\* five lines were admitted, a sixth was rejected, and a line arriving 61 s
\* after the first admitted one has just been admitted
C3_Witness ==
    /\ last.limiter = "admitted"
    /\ Len(admittedLog) = MaxRequests + 1
    /\ admittedLog[MaxRequests + 1] - admittedLog[1] = 61000
    /\ stats.messagesMonitored = MaxRequests + 2

\* C4: sanitizeMessage(sanitizeMessage(x)) = sanitizeMessage(x) for every
\* input x, including inputs cut right after a whitespace character.
C4_SanitizeIdempotent == sPc = "twice" => sTwice = sOnce

Resolved == pubCalls > 0 /\ tasks = <<>> /\ ~lastOutcome.raised

\* C5: with N relays of which k fail, every relay is attempted, the outcome
\* counts N - k published and k failed, and nothing is raised to the caller.
C5_PartialFailureOutcome ==
    (~config.testMode /\ Resolved) =>
        /\ lastOutcome.attempted = config.relays
        /\ lastOutcome.result.published = config.relays - lastOutcome.failures
        /\ lastOutcome.result.failed = lastOutcome.failures
        /\ lastOutcome.result.success = (lastOutcome.failures < config.relays)

\* five relays, two of them failed: {published: 3, failed: 2}, success
C5_Witness ==
    /\ Resolved
    /\ lastOutcome.attempted = 5
    /\ lastOutcome.failures = 2
    /\ lastOutcome.result = [success |-> TRUE, published |-> 3, failed |-> 2]
    /\ stats.successfulPosts = 1

AllFailedSettles ==
    /\ Len(tasks') = Len(tasks) - 1
    /\ lastOutcome'.failures = lastOutcome'.attempted

\* C6: when every relay fails the outcome has published = 0 and is not a
\* success, failedPosts grows by exactly one, and publishMessage is not
\* called again for that chat line: it is only ever called once, as a chat
\* line arrives.
C6_AllFailRecordedOnceNoRetry ==
    [][/\ AllFailedSettles =>
            /\ lastOutcome'.result.published = 0
            /\ ~lastOutcome'.result.success
            /\ stats'.failedPosts = stats.failedPosts + 1
            /\ stats'.successfulPosts = stats.successfulPosts
            /\ pubCalls' = pubCalls
       /\ pubCalls' # pubCalls =>
            /\ pubCalls' = pubCalls + 1
            /\ msgsLeft' = msgsLeft - 1]_vars

\* all five relays failed and the publish was recorded as one failed post
C6_Witness ==
    /\ Resolved
    /\ lastOutcome.attempted = 5
    /\ lastOutcome.failures = 5
    /\ pubCalls = 1
    /\ stats.failedPosts = 1
    /\ stats.successfulPosts = 0

\* C7: in test mode publish makes no network call and returns
\* {attempted: N, succeeded: N, failed: 0} for N relays, the values of a
\* fully successful real publish.
C7_DryRunReportsAllRelays ==
    (config.testMode /\ Resolved) =>
        /\ lastOutcome.netCalls = 0
        /\ lastOutcome.result =
               [success |-> TRUE, published |-> config.relays, failed |-> 0]

\* C7, amended: in test mode publish makes no network call, leaves nothing
\* in flight and returns {success: true, published: 0, failed: 0} whatever
\* the number of relays.
C7_DryRunNoNetworkZeroPublished ==
    config.testMode =>
        /\ tasks = <<>>
        /\ lastOutcome.netCalls = 0
        /\ lastOutcome.attempted = 0
        /\ Resolved => lastOutcome.result =
                           [success |-> TRUE, published |-> 0, failed |-> 0]

\* a chat line was published in test mode with five relays configured
C7_Witness ==
    /\ config.testMode
    /\ config.relays = 5
    /\ Resolved
    /\ stats.successfulPosts = 1

\* C8: once maxReconnectAttempts (10) consecutive reconnect attempts have
\* failed ('Max IRC reconnection attempts reached' was logged), the
\* connection is Disconnected in every later state, as long as no operator
\* has intervened (here: has shut the process down to restart it).
C8_StaysDisconnectedAfterMaxAttempts ==
    (irc.maxReached /\ ~shutdown) => ~irc.isConnected

\* C9: after the disconnect() of a shutdown, with no connect() called
\* explicitly afterwards, the connection is inert: no keep-alive interval
\* is live and no timer callback has opened a transport again.
C9_InertAfterDisconnect ==
    shutdown => (irc.client = "null" /\ irc.intervals = 0)

\* C10: at most one reconnect delay timer is pending at any time.
C10_AtMostOneReconnectTimer ==
    irc.reconnectTimers <= 1

\* C11: a reconnect timer that fires while the connection is registered
\* (isConnected) leaves the current client, its listeners and its keep-alive
\* timer as they are; it calls connect() only when isConnected is false.
C11_StaleTimerLeavesRegisteredAlone ==
    [][(irc'.reconnectTimers < irc.reconnectTimers /\ irc.isConnected)
          => /\ irc'.client = irc.client
             /\ irc'.isConnected
             /\ irc'.messageHandlers = irc.messageHandlers
             /\ irc'.keepAliveInterval = irc.keepAliveInterval
             /\ irc'.intervals = irc.intervals]_vars

C11_Witness ==
    /\ irc.timerSaw = "connected"
    /\ irc.client = "registered"
    /\ irc.isConnected
    /\ irc.intervals = 1

\* C12: the recovery from a recognized null-reference fault (the callback
\* armed by the uncaughtException handler, with an IRC client present) goes
\* through the reconnect procedure: it does not lower reconnectAttempts, and
\* once reconnectAttempts has reached maxReconnectAttempts it arms no timer
\* that will call connect().
C12_FaultRecoveryBoundedLikeClose ==
    [][(faultTimers' < faultTimers /\ ircClient)
          => /\ irc'.reconnectAttempts >= irc.reconnectAttempts
             /\ irc.reconnectAttempts >= MaxReconnectAttempts
                   => /\ resetTimers' = resetTimers
                      /\ irc'.reconnectTimers = irc.reconnectTimers]_vars

\* C13: in every state the health endpoint reports healthy exactly when the
\* connection is Registered (the last thing that happened to it is the
\* 'registered' event: no close, error, disconnect, failed probe or
\* teardown since) and a publisher is configured.
C13_HealthyIffRegistered ==
    Healthy <=> (irc.lastEvent = "registered" /\ nostrClient)

C13_Witness ==
    /\ Healthy
    /\ irc.lastEvent = "registered"
    /\ irc.timerSaw = "disconnected"

\* C14: a relay connection established by a publish is closed exactly once,
\* when its relay.publish has settled, fulfilled or rejected: while the
\* publish is in flight a connection is open only while its submit is
\* pending and has not been closed before, a settled submit has closed its
\* connection once, a failed connect has nothing to close; and once the
\* publish has resolved no connection it opened remains open.
ReleasedOnce(rec) ==
    /\ rec.closes <= 1
    /\ rec.open <=> rec.status = "publishing"
    /\ rec.closes = 1 <=> (rec.status \in {"fulfilled", "rejected"} /\ rec.calls > 1)

C14_ConnectionReleasedExactlyOnce ==
    /\ \A i \in 1..Len(tasks) : \A r \in DOMAIN tasks[i].relay :
          ReleasedOnce(tasks[i].relay[r])
    /\ Resolved => /\ lastOutcome.stillOpen = 0
                   /\ lastOutcome.closed = lastOutcome.opened

C14_Witness ==
    /\ Resolved
    /\ lastOutcome.opened >= 2
    /\ lastOutcome.closed = lastOutcome.opened
    /\ lastOutcome.result.published >= 1
    /\ lastOutcome.failures > lastOutcome.attempted - lastOutcome.opened

\* C15: aggregate outcomes are recorded in the order in which their messages
\* arrived: no publish is still in flight once the outcome of a publish
\* started after it has been recorded.
C15_OutcomesInArrivalOrder ==
    \A i \in 1..Len(tasks) : tasks[i].seq > lastOutcome.seq

\* C16: nothing is ever written to the chat channel: the only commands the
\* bridge's client sends are registration, joining the configured channels,
\* the keep-alive PING and PONG replies.
C16_NeverWritesToChannel ==
    /\ "PRIVMSG" \notin irc.outbound
    /\ irc.outbound \subseteq {"NICK", "JOIN", "PING", "PONG"}

C16_Witness ==
    /\ irc.outbound = {"NICK", "JOIN", "PING", "PONG"}
    /\ last.msg.from = DefaultTargetBot
    /\ last.called

\* C17: the content of every post handed to the publisher (the events of
\* the publishes in flight) is not empty, at most 280 characters long, free
\* of control characters, and is sanitizeMessage of the text of the chat
\* line it comes from.
C17_ContentSanitized ==
    \A i \in 1..Len(tasks) :
        LET content == tasks[i].event.content IN
        /\ Len(content) >= 1
        /\ Len(content) <= MaxMessageLength
        /\ \A k \in 1..Len(content) : ~IsControl(content[k])
        /\ content = SanitizeMessage(tasks[i].src.text)

C17_Witness ==
    /\ Len(tasks) > 0
    /\ Len(tasks[1].src.text) > MaxMessageLength
    /\ \E k \in 1..Len(tasks[1].src.text) : IsControl(tasks[1].src.text[k])
    /\ Len(tasks[1].event.content) = MaxMessageLength

\* C18: every outbound post carries exactly two topic tags, one naming the
\* configured channel and one naming the configured target sender, whatever
\* the two settings are.
TagOf(name) ==
    CASE name = "#SirLibre"     -> "sirlibre"
      [] name = "LibreRelayBot" -> "librerelaybot"
      [] name = "#Other"        -> "other"
      [] name = "OtherBot"      -> "otherbot"

C18_TagsDerivedFromConfig ==
    \A i \in 1..Len(tasks) :
        tasks[i].event.tags = <<(<<"t", TagOf(config.channel)>>),
                                (<<"t", TagOf(config.targetBot)>>)>>

\* C19: at most one client is attached at any time (connect() disconnects
\* and drops the previous one, listeners removed, before it creates the
\* next), and when the transport of a dropped client closes, isConnected,
\* reconnectAttempts, the timers and everything else of the IRC client stay
\* as they are.
C19_OneSessionAndDroppedClientsUnheard ==
    /\ [](/\ irc.sessions <= 1
          /\ irc.sessions = 1 <=> irc.client # "null"
          /\ ~irc.droppedListeners)
    /\ [][(irc.dropped /\ ~irc'.dropped)
             => irc' = [irc EXCEPT !.dropped = FALSE, !.staleEvents = TRUE]]_vars

C19_Witness ==
    /\ irc.staleEvents
    /\ ~irc.dropped
    /\ irc.client = "registered"
    /\ irc.isConnected
    /\ irc.timerSaw = "disconnected"

\* C20, as stated: once the connection has left Registered because of a
\* 'close' event, an 'error' event or a keep-alive PING that could not be
\* sent, no keep-alive interval is running.
C20_KeepAliveStoppedOnLeavingRegistered ==
    irc.lastEvent \in {"close", "error", "probe"} => irc.intervals = 0

\* C20, amended: after a 'close' event, a 'disconnect' event or disconnect()
\* no keep-alive interval is running; an 'error' event or a PING that could
\* not be sent takes the connection out of Registered and leaves the
\* keep-alive interval running.
C20_KeepAliveStoppedOnCloseOnly ==
    /\ [](irc.lastEvent \in {"close", "disconnect", "teardown"}
             => (irc.intervals = 0 /\ ~irc.keepAliveInterval))
    /\ [][(irc.isConnected /\ irc'.lastEvent \in {"error", "probe"})
             => /\ ~irc'.isConnected
                /\ irc'.intervals = 1
                /\ irc'.intervals = irc.intervals]_vars

C20_Witness ==
    /\ irc.lastEvent = "probe"
    /\ ~irc.isConnected
    /\ irc.intervals = 1
    /\ irc.reconnectTimers = 1

\* C21, as stated: after an 'error' or a 'close' event, in whatever state,
\* with reconnectAttempts below the maximum (and no shutdown), the
\* connection is Disconnected and a reconnect is on its way: a reconnect
\* timer is pending, or some timer is running whose callback starts one.
C21_ErrorOrCloseSchedulesReconnect ==
    (/\ irc.lastEvent \in {"error", "close"}
     /\ irc.reconnectAttempts < MaxReconnectAttempts
     /\ ~shutdown)
        => /\ ~irc.isConnected
           /\ \/ irc.reconnectTimers > 0
              \/ irc.intervals > 0
              \/ resetTimers > 0
              \/ faultTimers > 0

\* C21, amended: a 'close' event, in whatever state, clears isConnected and,
\* with reconnectAttempts below the maximum, leaves a reconnect timer
\* pending; an 'error' event clears isConnected and does nothing else (it
\* arms no timer and stops none).
C21_CloseSchedulesErrorOnlyMarks ==
    /\ [][(irc'.client = "closed" /\ irc.client # "closed")
             => /\ ~irc'.isConnected
                /\ irc.reconnectAttempts < MaxReconnectAttempts
                      => (irc'.reconnecting /\ irc'.reconnectTimers > 0)]_vars
    /\ [][(irc'.lastEvent = "error" /\ irc.lastEvent # "error")
             => irc' = [irc EXCEPT !.isConnected = FALSE,
                                   !.lastEvent = "error"]]_vars

C21_Witness ==
    /\ irc.lastEvent = "error"
    /\ irc.client = "connecting"
    /\ ~irc.isConnected
    /\ irc.reconnectAttempts = 1
    /\ irc.reconnectTimers = 0
    /\ irc.intervals = 0
    /\ resetTimers = 0
    /\ faultTimers = 0
    /\ ~shutdown

\* C22: the 'registered' event makes the connection Registered
\* (isConnected), sets reconnectAttempts to zero and starts a keep-alive
\* interval; so reconnectAttempts is zero whenever the connection is
\* Registered.
C22_RegisteredResetsCounterStartsKeepAlive ==
    /\ [](irc.isConnected => irc.reconnectAttempts = 0)
    /\ [][(irc'.client = "registered" /\ irc.client # "registered")
             => /\ irc'.isConnected
                /\ irc'.lastEvent = "registered"
                /\ irc'.reconnectAttempts = 0
                /\ irc'.keepAliveInterval
                /\ irc'.intervals = irc.intervals + 1]_vars

C22_Witness ==
    /\ irc.client = "registered"
    /\ irc.lastEvent = "registered"
    /\ irc.reconnectAttempts = 0
    /\ irc.keepAliveInterval
    /\ irc.intervals = 1
    /\ irc.timerSaw = "disconnected"
    /\ ~irc.maxReached

\* C23: the steps run in the order sender match, rate limit, sanitize, and
\* stop at the first rejection: a line of another sender never reaches the
\* rate limiter; a rate-limited line is not published and counts no post; a
\* line of the target sender that the limiter admits has its timestamp in
\* the window, also when its text sanitizes to nothing and nothing is
\* published.
C23_PipelineOrder ==
    /\ []((Handled /\ last.limiter = "rejected") => ~last.called)
    /\ []((Handled /\ last.limiter = "admitted")
             => /\ last.msg.from = config.targetBot
                /\ last.msg.from \in DOMAIN requests
                /\ requests[last.msg.from] # <<>>
                /\ requests[last.msg.from][Len(requests[last.msg.from])] = now
                /\ last.called <=> SanitizeMessage(last.msg.text) # <<>>)
    /\ [][(msgsLeft' < msgsLeft /\ last'.msg.from # config.targetBot)
             => (last'.limiter = "none" /\ requests' = requests /\ stats' = stats)]_vars
    /\ [][(msgsLeft' < msgsLeft /\ last'.limiter = "rejected")
             => /\ pubCalls' = pubCalls
                /\ stats' = [stats EXCEPT !.messagesMonitored = @ + 1]]_vars

C23_Witness ==
    /\ last.limiter = "rejected"
    /\ last.msg.from = config.targetBot
    /\ Len(requests[config.targetBot]) = MaxRequests
    /\ pubCalls >= 1
    /\ pubCalls < MaxRequests

\* C24: a publish resolves only when every relay attempt has settled, and as
\* soon as they all have: no publish in flight has all its attempts settled
\* or its outcome recorded, and the step that resolves a publish is the one
\* that settles its last pending attempt, with every relay counted as
\* published or failed.
Pending(task) ==
    {r \in DOMAIN task.relay : task.relay[r].status \notin {"fulfilled", "rejected"}}

C24_ResolvesWhenAllSettled ==
    /\ [](\A i \in 1..Len(tasks) :
             /\ Pending(tasks[i]) # {}
             /\ tasks[i].seq # lastOutcome.seq)
    /\ [][Len(tasks') < Len(tasks)
             => \E i \in 1..Len(tasks) :
                   /\ tasks' = RemoveAt(tasks, i)
                   /\ Cardinality(Pending(tasks[i])) = 1
                   /\ lastOutcome'.seq = tasks[i].seq
                   /\ lastOutcome'.result.published + lastOutcome'.result.failed
                         = Cardinality(DOMAIN tasks[i].relay)]_vars

C24_Witness ==
    /\ Len(tasks) = 1
    /\ \E r \in DOMAIN tasks[1].relay : tasks[1].relay[r].status = "fulfilled"
    /\ \E r \in DOMAIN tasks[1].relay : tasks[1].relay[r].status = "rejected"
    /\ Cardinality(Pending(tasks[1])) = 1
    /\ lastOutcome.seq < tasks[1].seq

\* C25: after the first connect, reconnects and resetAndReconnect(), the
\* bridge's 'message' listener is attached exactly once to the current
\* client and to no dropped client, and a chat line on the registered
\* transport is handled exactly once.
C25_MessageHandlerAttachedOnce ==
    /\ [](/\ irc.client # "null" => irc.messageHandlers = 1
          /\ irc.client = "null" => irc.messageHandlers = 0
          /\ ~irc.droppedListeners)
    /\ [][msgsLeft' < msgsLeft
             => /\ irc.messageHandlers = 1
                /\ stats'.messagesMonitored = stats.messagesMonitored + 1]_vars

C25_Witness ==
    /\ irc.maxReached
    /\ irc.timerSaw = "disconnected"
    /\ irc.client = "registered"
    /\ irc.messageHandlers = 1
    /\ Handled
    /\ stats.messagesMonitored = 1

\* C26: reconnectAttempts stays within 0..maxReconnectAttempts; it grows
\* only by one, only in a step that arms a reconnect timer, and only when no
\* reconnect was in flight; and every reconnect timer armed counts one
\* attempt.
C26_AttemptsBoundedAndCountTimers ==
    /\ [](irc.reconnectAttempts \in 0..MaxReconnectAttempts)
    /\ [][irc'.reconnectAttempts > irc.reconnectAttempts
             => /\ irc'.reconnectAttempts = irc.reconnectAttempts + 1
                /\ irc'.reconnectTimers = irc.reconnectTimers + 1
                /\ ~irc.reconnecting
                /\ irc'.reconnecting]_vars
    /\ [][irc'.reconnectTimers > irc.reconnectTimers
             => irc'.reconnectAttempts = irc.reconnectAttempts + 1]_vars

C26_Witness ==
    /\ irc.reconnectAttempts = MaxReconnectAttempts
    /\ irc.reconnecting
    /\ irc.reconnectTimers = 1
    /\ ~irc.maxReached

\* C27: every sender's window holds at most 5 timestamps in non-decreasing
\* order; a rejected check appends nothing: the window afterwards is the
\* window before without a prefix of entries older than the window duration,
\* and the windows of the other senders are untouched.
C27_WindowBoundedRejectedNotRecorded ==
    /\ [](\A k \in DOMAIN requests :
             /\ Len(requests[k]) <= MaxRequests
             /\ \A i \in 1..Len(requests[k]) - 1 :
                    requests[k][i] <= requests[k][i + 1])
    /\ [][(msgsLeft' < msgsLeft /\ last'.limiter = "rejected")
             => /\ DOMAIN requests' = DOMAIN requests
                /\ \A k \in DOMAIN requests \ {last'.msg.from} :
                       requests'[k] = requests[k]
                /\ LET old == requests[last'.msg.from]
                       new == requests'[last'.msg.from]
                   IN  \E n \in 0..Len(old) :
                           /\ new = SubSeq(old, n + 1, Len(old))
                           /\ \A i \in 1..n : old[i] < now' - WindowMs]_vars

\* five lines admitted at once, then two more rejected, the second of them
\* 60 s later, with the window still holding the five admitted timestamps
C27_Witness ==
    /\ last.limiter = "rejected"
    /\ now = WindowMs
    /\ stats.messagesMonitored = MaxRequests + 2
    /\ requests[config.targetBot] = <<0, 0, 0, 0, 0>>

\* C28: successfulPosts + failedPosts never exceeds messagesMonitored; every
\* publishMessage call is counted in exactly one of the two counters, once,
\* when it settles or throws, and is counted in neither while in flight; a
\* chat line starts a publish exactly when it is of the target sender, passes
\* the rate limit and sanitizes to a non-empty text; a line of another
\* sender changes no counter.
C28_PostsCountedOnce ==
    /\ [](stats.successfulPosts + stats.failedPosts <= stats.messagesMonitored)
    /\ [](stats.successfulPosts + stats.failedPosts + Len(tasks) = pubCalls)
    /\ [][/\ stats'.successfulPosts >= stats.successfulPosts
          /\ stats'.failedPosts >= stats.failedPosts
          /\ (stats'.successfulPosts + stats'.failedPosts)
                 - (stats.successfulPosts + stats.failedPosts) <= 1]_vars
    /\ [][msgsLeft' < msgsLeft
             => /\ pubCalls' - pubCalls \in {0, 1}
                /\ pubCalls' = pubCalls + 1
                       <=> /\ last'.msg.from = config.targetBot
                           /\ last'.limiter = "admitted"
                           /\ SanitizeMessage(last'.msg.text) # <<>>
                /\ last'.msg.from # config.targetBot => stats' = stats]_vars
    /\ [][Len(tasks') < Len(tasks)
             => /\ stats'.successfulPosts + stats'.failedPosts
                       = stats.successfulPosts + stats.failedPosts + 1
                /\ stats'.messagesMonitored = stats.messagesMonitored]_vars

\* one publish posted, one failed at its relay, one threw; then a line that
\* sanitizes to nothing was counted as monitored only, and the latest line,
\* of another sender, changed nothing
C28_Witness ==
    /\ stats.successfulPosts = 1
    /\ stats.failedPosts = 2
    /\ stats.messagesMonitored = 4
    /\ pubCalls = 3
    /\ lastOutcome.raised
    /\ tasks = <<>>
    /\ last.msg.from # config.targetBot

\* C29: at most one keep-alive interval is running, it is the one whose
\* handle is stored, and it runs only while the current client is the one
\* that registered: there is none while there is no client or the client is
\* still connecting, closing or closed; an interval is started only when
\* none is running and no handle is stored.
C29_OneKeepAliveOfCurrentClient ==
    /\ [](/\ irc.intervals \in {0, 1}
          /\ irc.keepAliveInterval <=> irc.intervals = 1
          /\ irc.intervals = 1 => irc.client = "registered")
    /\ [][irc'.intervals > irc.intervals
             => /\ irc.intervals = 0
                /\ ~irc.keepAliveInterval
                /\ irc'.lastEvent = "registered"]_vars
    /\ [][irc'.lastEvent = "teardown"
             => (irc'.intervals = 0 /\ ~irc'.keepAliveInterval)]_vars

\* a client that had registered and sent keep-alive PINGs was replaced while
\* its transport was still open, and the new client has registered with one
\* keep-alive interval
C29_Witness ==
    /\ irc.client = "registered"
    /\ irc.lastEvent = "registered"
    /\ irc.intervals = 1
    /\ irc.keepAliveInterval
    /\ irc.dropped
    /\ irc.timerSaw = "disconnected"
    /\ "PING" \in irc.outbound

====
